---------------------------- MODULE Spec2Model ----------------------------
(***************************************************************************)
(* Model of the mailbox polling and delivery core of src/main.py:          *)
(* the registry USER_MAILBOXES, the handlers cmd_generate and              *)
(* callback_view_message and the background task poll_inboxes, with the    *)
(* mail provider and the chat platform as nondeterministic environments.   *)
(*                                                                         *)
(* The program runs on one asyncio event loop: a coroutine runs without    *)
(* interruption between two awaits.  poll_inboxes suspends at the provider *)
(* query (line 128), at send_message (line 150) and at the sleep (line     *)
(* 155); the handlers run only while it is suspended there.  The task is   *)
(* taken as started (line 168).                                            *)
(***************************************************************************)
EXTENDS Integers, Sequences, FiniteSets, TLC

\* ---------------------------------------------------------------- bounds
MaxSubscriptions == 2    \* Subscription dicts created over a run
MaxMsgs == 2             \* longest message list of one provider response

Subscribers == {1, 2}    \* telegram ids
MsgIds == {1, 2}         \* message ids the provider uses

\* Text is a sequence of characters, so that length, slicing and splitting are
\* what they are in the program.
\* Two results of make_random_username.
Usernames == {<<"a", "b", "c", "d", "e", "f">>,
              <<"b", "1", "c", "2", "d", "3", "e">>}
DEFAULT_DOMAIN == <<"n", "q", "m", "o", ".", "c", "o", "m">>

\* ------------------------------------------------------ provider payloads
\* A falsy id (None, "", 0): msg.get("id") of a message without a usable id.
NoId == 0
\* An element of a message list: a JSON object with its id, or a JSON value
\* that is no object (a string, a number), which has no .get().
MsgObject(i) == [isObject |-> TRUE, id |-> i]
NotAnObject == [isObject |-> FALSE, id |-> NoId]
Items == {MsgObject(i) : i \in MsgIds \cup {NoId}} \cup {NotAnObject}

RECURSIVE SeqsUpTo(_, _)
SeqsUpTo(S, n) ==
    IF n = 0 THEN {<<>>}
    ELSE LET shorter == SeqsUpTo(S, n - 1)
         IN  shorter \cup {Append(s, x) : s \in {t \in shorter : Len(t) = n - 1}, x \in S}
MsgLists == SeqsUpTo(Items, MaxMsgs)

\* Python values fetch_mailcx can return.  type is the Python type; for a dict
\* hasMessages is ("messages" in mails) and the value of that key is a list
\* (iterable, items) or a value a for loop cannot iterate (null, a number).
PyDict(has, iter, items) ==
    [type |-> "dict", hasMessages |-> has, iterable |-> iter, items |-> items]
PyList(items) ==
    [type |-> "list", hasMessages |-> FALSE, iterable |-> TRUE, items |-> items]
\* For a value that is no dict, text is str(value).
PyStr == [type |-> "str", hasMessages |-> FALSE, iterable |-> FALSE, items |-> <<>>,
          text |-> <<>>]
PyOther == [type |-> "other", hasMessages |-> FALSE, iterable |-> FALSE, items |-> <<>>,
            text |-> <<>>]
ErrorDict == PyDict(FALSE, FALSE, <<>>)      \* {"error": str(e)}

JsonValues ==
    {PyDict(TRUE, TRUE, l) : l \in MsgLists} \cup {PyList(l) : l \in MsgLists}
    \cup {PyDict(TRUE, FALSE, <<>>), PyDict(FALSE, FALSE, <<>>), PyOther}

\* What the transport does with one GET: it raises (connection error, timeout),
\* or it answers with a status and a body (text) that is JSON or is not.  The
\* poll loop never reads the text of a body that is not JSON.
StatusOK == "2xx"
StatusError == "non2xx"
Statuses == {StatusOK, StatusError}
NoStatus == "none"
Responses ==
    {[raised |-> TRUE, status |-> NoStatus, isJson |-> FALSE, json |-> PyOther,
      text |-> <<>>]}
    \cup {[raised |-> FALSE, status |-> s, isJson |-> FALSE, json |-> PyOther,
           text |-> <<>>] : s \in Statuses}
    \cup {[raised |-> FALSE, status |-> s, isJson |-> TRUE, json |-> v,
           text |-> <<>>] : s \in Statuses, v \in JsonValues}

\* fetch_mailcx, lines 64-72: the status is never read.
fetch_mailcx(resp) ==
    IF resp.raised THEN ErrorDict
    ELSE IF resp.isJson THEN resp.json
    ELSE [PyStr EXCEPT !.text = resp.text]

\* poll_inboxes, lines 129-134: which value becomes `messages`, or `continue`.
HasMessageList(mails) ==
    \/ mails.type = "dict" /\ mails.hasMessages
    \/ mails.type = "list"

\* Mutants of line 138: no `mid in seen` test; no `not mid` test.
IsNewWithoutSeen(mid, seenSet) == mid # NoId
IsNewWithoutId(mid, seenSet) == mid \notin seenSet

\* poll_inboxes, line 138: the message is sent unless `not mid or mid in seen`.
IsNew(mid, seenSet) == mid # NoId /\ mid \notin seenSet

\* ------------------------------------------------------------------ state
VARIABLES
    registry,    \* USER_MAILBOXES: sequence of <<user_id, dict>> in insertion order
    email,       \* email[d]: data["email"] of Subscription dict d
    seen,        \* seen[d]: data["seen"] of Subscription dict d
    pc,          \* where poll_inboxes is
    snapshot,    \* list(USER_MAILBOXES.items()) of the pass in progress
    idx,         \* position of the outer for loop in snapshot
    messages,    \* what the inner for loop has not passed yet; its head is msg
    \* history, read by the properties only
    event,       \* what the last step did
    current,     \* current[u]: the dict of u's last cmd_generate, NoDict if none
    putAddr,     \* putAddr[u]: the address of u's last cmd_generate
    okCount,     \* okCount[d][m]: send_message calls for (d, m) that returned
    lateNotify,  \* a send_message for (d, m) was called after one had returned
    tickLog,     \* per snapshot entry of the pass: its queries, how the query
                 \* failed, and what was sent and recorded after a failed query
    retryDue,    \* registered dicts whose last query, in an earlier pass, raised
    retired,     \* snapshot entries replaced by cmd_generate since the snapshot
    sendFailed   \* ids[d]: the ids for which a send_message for dict d raised;
                 \* kept only by a specification that starts with it on

progVars == <<registry, email, seen, pc, snapshot, idx, messages>>
histVars == <<event, current, putAddr, okCount, lateNotify, tickLog, retryDue, retired,
              sendFailed>>
vars == <<progVars, histVars>>

NoDict == 0
Dicts == 1..Len(email)
RegObjs(reg) == {reg[i][2] : i \in DOMAIN reg}
RegKeys(reg) == {reg[i][1] : i \in DOMAIN reg}
SnapObjs == {snapshot[i][2] : i \in DOMAIN snapshot}
CurUser == snapshot[idx][1]
CurObj == snapshot[idx][2]
\* Mutant of line 136: the loop takes the messages from the back of the list.
CurMsgFromBack == messages[Len(messages)]
\* poll_inboxes, line 136: msg is the first message the loop has not passed.
CurMsg == Head(messages)

Event(k, d, m) == [kind |-> k, obj |-> d, mid |-> m]
\* The last step called fetch_mailcx (line 128) or send_message (line 150).
IsQuery(e) == e.kind \in {"query", "queryAgain"}
IsCall(e) == IsQuery(e) \/ e.kind = "notify"
Min(a, b) == IF a < b THEN a ELSE b

\* The coroutine is suspended in an await: other coroutines may run.
Suspended == pc \in {"fetch", "notify", "sleep", "crashed"}

\* ------------------------------------------------------------- operations
\* Mutants of line 87: setdefault keeps the first dict; a list of entries
\* that is appended to keeps the old dict next to the new one.
PutKeepsFirst(reg, u, d) ==
    IF u \in RegKeys(reg) THEN reg ELSE Append(reg, <<u, d>>)
PutAppends(reg, u, d) == Append(reg, <<u, d>>)

\* cmd_generate, line 87: USER_MAILBOXES[user_id] = {...}.  Assigning to an
\* existing key keeps the key's position; a new key goes last.
Put(reg, u, d) ==
    IF u \in RegKeys(reg)
    THEN [i \in DOMAIN reg |-> IF reg[i][1] = u THEN <<u, d>> ELSE reg[i]]
    ELSE Append(reg, <<u, d>>)

\* poll_inboxes, line 124: list(USER_MAILBOXES.items()), a copy of the items.
Snapshot(reg) == reg

\* Mutant of line 124: the loop iterates USER_MAILBOXES.items() itself, a view
\* that shows every later assignment.
LiveViewAfterPut(snap, reg) == reg

\* poll_inboxes, line 124: the list is a copy; an assignment to USER_MAILBOXES
\* (line 87) made while the loop is suspended does not show in it.
SnapshotAfterPut(snap, reg) == snap

\* Mutants of lines 149-153: seen.add(mid) before the try, whatever follows;
\* the id is taken out when it is there (seen ^= {mid}); seen = {mid}.
AfterSendAlways(seenSet, mid, ok) == seenSet \cup {mid}
AfterSendToggles(seenSet, mid, ok) ==
    IF ok THEN (seenSet \cup {mid}) \ (seenSet \cap {mid}) ELSE seenSet
AfterSendReplaces(seenSet, mid, ok) == IF ok THEN {mid} ELSE seenSet

\* poll_inboxes, lines 149-153: seen.add(mid) only after send_message returned.
AfterSend(seenSet, mid, ok) == IF ok THEN seenSet \cup {mid} ELSE seenSet

\* Mutants of line 134: the entry is tried again; `break` ends the pass.
AfterSkipRetries(i) == i - 1
AfterSkipBreaks(i) == Len(snapshot)

\* poll_inboxes, line 134: `continue` goes on to the next snapshot entry.
AfterSkip(i) == i

\* Mutant of line 126: the set is looked up by subscriber when it is written,
\* USER_MAILBOXES[user_id]["seen"].add(mid).
SeenByKey(d, u) == current[u]

\* poll_inboxes, line 126: `seen` is the set of the snapshot's dict d, whatever
\* USER_MAILBOXES holds for the subscriber u by the time it is written.
SeenOf(d, u) == d

\* A dict that neither USER_MAILBOXES nor the pass's list refers to is
\* reclaimed: nothing can read its fields again.
NoEmail == <<>>
Reclaim(f, live, blank) == [d \in DOMAIN f |-> IF d \in live THEN f[d] ELSE blank]
NoCounts == [m \in MsgIds |-> 0]
NotRecorded == [on |-> FALSE, ids |-> <<>>]
Recorded == [on |-> TRUE, ids |-> <<>>]
WithIds(f) == IF sendFailed.on THEN [sendFailed EXCEPT !.ids = f] ELSE sendFailed
Count(d, m) == IF m \in MsgIds THEN okCount[d][m] ELSE 0

Started(rec) ==
    /\ registry = <<>>
    /\ email = <<>>
    /\ seen = <<>>
    /\ pc = "start"
    /\ snapshot = <<>>
    /\ idx = 0
    /\ messages = <<>>
    /\ event = Event("init", NoDict, NoId)
    /\ current = [u \in Subscribers |-> NoDict]
    /\ putAddr = [u \in Subscribers |-> NoEmail]
    /\ okCount = <<>>
    /\ lateNotify = FALSE
    /\ tickLog = <<>>
    /\ retryDue = {}
    /\ retired = {}
    /\ sendFailed = rec

Init == Started(NotRecorded)

\* cmd_generate, line 85: f"{username}@{DEFAULT_DOMAIN}".
Address(name) == name \o <<"@">> \o DEFAULT_DOMAIN

\* cmd_generate, lines 82-91, up to its await.
Generate(u, name) ==
    /\ Suspended
    /\ Len(email) < MaxSubscriptions
    /\ LET d == Len(email) + 1
           reg == Put(registry, u, d)
           live == RegObjs(reg) \cup SnapObjs
       IN  /\ email' = Reclaim(Append(email, Address(name)), live, NoEmail)
           /\ seen' = Reclaim(Append(seen, {}), live, {})
           /\ registry' = reg
           /\ okCount' = Reclaim(Append(okCount, NoCounts), live, NoCounts)
           /\ sendFailed' = WithIds(Reclaim(Append(sendFailed.ids, {}), live, {}))
           /\ retired' = retired \cup ({current[u]} \cap SnapObjs)
           /\ retryDue' = retryDue \ {current[u]}
           /\ current' = [current EXCEPT ![u] = d]
           /\ putAddr' = [putAddr EXCEPT ![u] = Address(name)]
           /\ snapshot' = SnapshotAfterPut(snapshot, reg)
           /\ event' = Event("put", d, NoId)
    /\ UNCHANGED <<pc, idx, messages, lateNotify, tickLog>>

\* poll_inboxes, line 124 (first pass, or the sleep of line 155 is over).
Tick ==
    /\ pc \in {"start", "sleep"}
    /\ snapshot' = Snapshot(registry)
    /\ idx' = 0
    /\ pc' = "next"
    /\ tickLog' = [i \in DOMAIN snapshot' |->
                     [obj |-> snapshot'[i][2], queries |-> 0, failure |-> "none",
                      notified |-> FALSE, grew |-> FALSE]]
    /\ retryDue' = (retryDue \cup {tickLog[i].obj : i \in
                        {j \in DOMAIN tickLog : tickLog[j].failure = "raised"}})
                   \cap RegObjs(registry)
    /\ retired' = {}
    /\ event' = Event("snapshot", NoDict, NoId)
    /\ UNCHANGED <<registry, email, seen, messages, current, putAddr, okCount, lateNotify,
                   sendFailed>>

\* The pass is over (line 155) or has died: its list is dropped.
DropSnapshot ==
    /\ snapshot' = <<>>
    /\ idx' = 0
    /\ messages' = <<>>
    /\ email' = Reclaim(email, RegObjs(registry), NoEmail)
    /\ seen' = Reclaim(seen, RegObjs(registry), {})
    /\ okCount' = Reclaim(okCount, RegObjs(registry), NoCounts)
    /\ sendFailed' = WithIds(Reclaim(sendFailed.ids, RegObjs(registry), {}))

\* An exception nothing catches ends the task of line 168.
Crash ==
    /\ pc' = "crashed"
    /\ event' = Event("crash", CurObj, NoId)
    /\ DropSnapshot

\* poll_inboxes, lines 124-128: the for loop takes the next entry and calls
\* fetch_mailcx, or the list is exhausted and the pass ends at line 155.
NextSub ==
    /\ pc = "next"
    /\ IF idx + 1 > Len(snapshot)
       THEN /\ pc' = "sleep"
            /\ event' = Event("sleep", NoDict, NoId)
            /\ DropSnapshot
            /\ UNCHANGED <<tickLog, retryDue>>
       ELSE /\ pc' = "fetch"
            /\ idx' = idx + 1
            /\ tickLog' = [tickLog EXCEPT ![idx + 1].queries = Min(@ + 1, 2)]
            /\ retryDue' = retryDue \ {snapshot[idx + 1][2]}
            /\ event' = Event(IF snapshot[idx + 1][2] \in retryDue
                              THEN "queryAgain" ELSE "query",
                              snapshot[idx + 1][2], NoId)
            /\ messages' = <<>>
            /\ UNCHANGED <<snapshot, email, seen, okCount, sendFailed>>
    /\ UNCHANGED <<registry, current, putAddr, lateNotify, retired>>

\* poll_inboxes, lines 128-136: fetch_mailcx returns.
FetchReturn(resp) ==
    /\ pc = "fetch"
    /\ LET mails == fetch_mailcx(resp)
           res == IF resp.raised THEN "raised"
                  ELSE IF resp.status # StatusOK THEN "status" ELSE "none"
       IN  /\ tickLog' = [tickLog EXCEPT ![idx].failure = res]
           /\ IF HasMessageList(mails)
              THEN IF mails.iterable
                   THEN /\ messages' = mails.items
                        /\ pc' = "msg"
                        /\ idx' = idx
                        /\ event' = Event("fetched", CurObj, NoId)
                        /\ UNCHANGED <<snapshot, email, seen, okCount, sendFailed>>
                   ELSE Crash      \* line 136: TypeError
              ELSE /\ pc' = "next"
                   /\ idx' = AfterSkip(idx)
                   /\ event' = Event("skipped", CurObj, NoId)
                   /\ UNCHANGED <<messages, snapshot, email, seen, okCount, sendFailed>>
    /\ UNCHANGED <<registry, current, putAddr, lateNotify, retryDue, retired>>

\* poll_inboxes, lines 136-150: one iteration of the inner for loop, up to
\* the call of send_message.
ProcessMsg ==
    /\ pc = "msg"
    /\ IF messages = <<>>
       THEN /\ pc' = "next"
            /\ event' = Event("listDone", CurObj, NoId)
            /\ UNCHANGED <<tickLog, lateNotify, snapshot, idx, messages, email, seen, okCount,
                           sendFailed>>
       ELSE IF ~CurMsg.isObject
       THEN /\ Crash               \* line 137: AttributeError
            /\ UNCHANGED <<tickLog, lateNotify>>
       ELSE IF ~IsNew(CurMsg.id, seen[CurObj])
       THEN /\ pc' = "msg"
            /\ messages' = Tail(messages)
            /\ event' = Event("skipMsg", CurObj, CurMsg.id)
            /\ UNCHANGED <<tickLog, lateNotify, snapshot, idx, email, seen, okCount, sendFailed>>
       ELSE /\ pc' = "notify"
            /\ tickLog' = [tickLog EXCEPT
                              ![idx].notified = (@ \/ tickLog[idx].failure # "none")]
            /\ lateNotify' = (lateNotify \/ Count(CurObj, CurMsg.id) > 0)
            /\ event' = Event("notify", CurObj, CurMsg.id)
            /\ UNCHANGED <<snapshot, idx, messages, email, seen, okCount, sendFailed>>
    /\ UNCHANGED <<registry, current, putAddr, retryDue, retired>>

\* poll_inboxes, lines 150-153: send_message returns or raises.
NotifyReturn(ok) ==
    /\ pc = "notify"
    /\ LET d == SeenOf(CurObj, CurUser)
           mid == CurMsg.id
       IN  /\ seen' = [seen EXCEPT ![d] = AfterSend(@, mid, ok)]
           /\ okCount' = IF ok /\ mid \in MsgIds
                         THEN [okCount EXCEPT ![CurObj][mid] = Min(@ + 1, 2)]
                         ELSE okCount
           /\ tickLog' = [tickLog EXCEPT
                             ![idx].grew = (@ \/ (tickLog[idx].failure # "none"
                                                  /\ seen'[CurObj] # seen[CurObj]))]
           /\ sendFailed' = IF ok THEN sendFailed
                            ELSE WithIds([sendFailed.ids EXCEPT ![CurObj] = @ \cup {mid}])
           /\ event' = Event(IF ok THEN "sent" ELSE "sendFailed", CurObj, mid)
    /\ pc' = "msg"
    /\ messages' = Tail(messages)
    /\ UNCHANGED <<registry, email, snapshot, idx, current, putAddr, lateNotify, retryDue, retired>>

Next ==
    \/ \E u \in Subscribers, name \in Usernames : Generate(u, name)
    \/ Tick
    \/ NextSub
    \/ \E resp \in Responses : FetchReturn(resp)
    \/ ProcessMsg
    \/ \E ok \in BOOLEAN : NotifyReturn(ok)

Spec == Init /\ [][Next]_vars

\* The provider lists the message with id 1 before the one with id 2 in every
\* response: a list that holds id 2 holds id 1 at an earlier place.
InOrder(l) ==
    \A j \in DOMAIN l :
        l[j] = MsgObject(2) => \E i \in 1..(j - 1) : l[i] = MsgObject(1)
OrderedResponses == {r \in Responses : r.isJson => InOrder(r.json.items)}

\* The program with such a provider, the failed send_message calls recorded;
\* every cmd_generate draws the same username.
OneUsername == CHOOSE n \in Usernames : TRUE
OrderNext ==
    \/ \E u \in Subscribers : Generate(u, OneUsername)
    \/ Tick
    \/ NextSub
    \/ \E resp \in OrderedResponses : FetchReturn(resp)
    \/ ProcessMsg
    \/ \E ok \in BOOLEAN : NotifyReturn(ok)

OrderSpec == Started(Recorded) /\ [][OrderNext]_vars

\* The provider answers every list query with a message list that holds the
\* message with id 1.
LiveResponses ==
    {r \in Responses :
        /\ ~r.raised /\ r.isJson
        /\ HasMessageList(r.json) /\ r.json.iterable
        /\ \E i \in DOMAIN r.json.items : r.json.items[i] = MsgObject(1)}

\* The program with such a provider and no subscriber who generates twice, so
\* that every Subscription stays registered.
GenerateOnce(u) ==
    /\ current[u] = NoDict
    /\ Generate(u, OneUsername)

LiveNext ==
    \/ \E u \in Subscribers : GenerateOnce(u)
    \/ Tick
    \/ NextSub
    \/ \E resp \in LiveResponses : FetchReturn(resp)
    \/ ProcessMsg
    \/ \E ok \in BOOLEAN : NotifyReturn(ok)

\* The event loop runs a coroutine that can go on (the sleep ends, an awaited
\* call returns or raises), and send_message does not raise forever.
LiveSpec ==
    /\ Init
    /\ [][LiveNext]_vars
    /\ WF_vars(Tick)
    /\ WF_vars(NextSub)
    /\ WF_vars(\E resp \in LiveResponses : FetchReturn(resp))
    /\ WF_vars(ProcessMsg)
    /\ WF_vars(\E ok \in BOOLEAN : NotifyReturn(ok))
    /\ SF_vars(NotifyReturn(TRUE))

TypeOK ==
    /\ pc \in {"start", "next", "fetch", "msg", "notify", "sleep", "crashed"}
    /\ Len(email) = Len(seen) /\ Len(email) <= MaxSubscriptions
    /\ \A d \in Dicts : seen[d] \subseteq MsgIds

\* ---------------------------------------------------------------- handlers
\* callback_view_message, lines 94-117, and make_random_username, lines 50-55.
Sep == "|"
HasSep(tok) == \E i \in DOMAIN tok : tok[i] = Sep
FirstSep(tok) == CHOOSE i \in DOMAIN tok : tok[i] = Sep /\ \A j \in 1..(i - 1) : tok[j] # Sep
LastSep(tok) == CHOOSE i \in DOMAIN tok : tok[i] = Sep /\ \A j \in (i + 1)..Len(tok) : tok[j] # Sep

\* Mutants of line 99: rsplit("|", 1) splits at the last separator;
\* partition("|") gives an empty second part when there is no separator.
SplitAtLast(tok) ==
    IF HasSep(tok)
    THEN <<SubSeq(tok, 1, LastSep(tok) - 1), SubSeq(tok, LastSep(tok) + 1, Len(tok))>>
    ELSE <<tok>>
SplitPartition(tok) ==
    IF HasSep(tok)
    THEN <<SubSeq(tok, 1, FirstSep(tok) - 1), SubSeq(tok, FirstSep(tok) + 1, Len(tok))>>
    ELSE <<tok, <<>> >>

\* callback_view_message, line 99: query.data.split("|", 1), the list of parts.
\* Unpacking it into (email, mid) raises ValueError unless it has two parts.
SplitToken(tok) ==
    IF HasSep(tok)
    THEN <<SubSeq(tok, 1, FirstSep(tok) - 1), SubSeq(tok, FirstSep(tok) + 1, Len(tok))>>
    ELSE <<tok>>

\* poll_inboxes, line 147: callback_data=f"{email}|{mid}".
MakeToken(addr, midText) == addr \o <<Sep>> \o midText

\* str(mid) of the message ids; the second one holds a separator.
IdText(m) == IF m = 1 THEN <<"7">> ELSE <<"x", "|", "y">>

\* callback_view_message, lines 101, 108-112 and 116: the program's texts.
\* CrossMark stands for the one character U+274C.
CrossMark == "X"
InvalidData == <<CrossMark, " ", "I", "n", "v", "a", "l", "i", "d", " ", "d", "a", "t", "a">>
NoSubject == <<"(", "n", "o", " ", "s", "u", "b", "j", "e", "c", "t", ")">>
UnknownSender == <<"u", "n", "k", "n", "o", "w", "n">>
NoBody == <<"(", "n", "o", " ", "b", "o", "d", "y", ")">>
SubjectLabel == <<"*", "S", "u", "b", "j", "e", "c", "t", ":", "*", " ">>
FromLabel == <<"\n", "*", "F", "r", "o", "m", ":", "*", " ">>
BodyGap == <<"\n", "\n">>
TruncationMarker == <<"\n", ".", ".", ".", "t", "r", "u", "n", "c", "a", "t", "e", "d", ".", ".", ".">>
TEXT_LIMIT == 3800

\* dict.get(key, default) of a JSON object: a record whose domain holds its keys.
Get(data, key, default) == IF key \in DOMAIN data THEN data[key] ELSE default

\* callback_view_message, lines 107-113: the text of a fetched message.
Render(data) ==
    IF data.type = "dict"
    THEN SubjectLabel \o Get(data, "subject", NoSubject)
         \o FromLabel \o Get(data, "from", UnknownSender)
         \o BodyGap \o Get(data, "body", NoBody)
    ELSE data.text

\* Mutant of line 115: `>=` for `>`.
TruncateFromLimit(text) ==
    IF Len(text) >= TEXT_LIMIT THEN SubSeq(text, 1, TEXT_LIMIT) \o TruncationMarker ELSE text

\* callback_view_message, lines 115-116.
Truncate(text) ==
    IF Len(text) > TEXT_LIMIT THEN SubSeq(text, 1, TEXT_LIMIT) \o TruncationMarker ELSE text

\* ---- inputs of the handlers
MaxTokenLen == 3
TokenChars == {"a", "7", Sep}
Tokens ==
    SeqsUpTo(TokenChars, MaxTokenLen)
    \cup {MakeToken(Address(n), IdText(m)) : n \in Usernames, m \in MsgIds}

\* A text of n characters that differ from place to place.
DigitAt(i) == <<"0", "1", "2", "3", "4", "5", "6", "7", "8", "9">>[(i % 10) + 1]
TextOf(n) == [i \in 1..n |-> DigitAt(i)]
BodyLens == {0, 9, 3759, 3760, 3768, 3769, 3900}
RawLens == {0, 3799, 3800, 3801, 3817}
Subjects == {<<"H", "i">>}
Senders == {<<"a", "@", "b", ".", "c">>}

\* The JSON objects of a message query: any of the keys may be missing.
MessageFields ==
    {f \in [{"subject", "from", "body"} -> {"in", "out"}] : TRUE}
MessageDicts ==
    {[k \in {"type"} \cup {x \in {"subject", "from", "body"} : f[x] = "in"} |->
         IF k = "type" THEN "dict"
         ELSE IF k = "subject" THEN s
         ELSE IF k = "from" THEN a
         ELSE b] :
       f \in MessageFields, s \in Subjects, a \in Senders,
       b \in {TextOf(n) : n \in BodyLens}}
ViewResponses ==
    {[raised |-> TRUE, status |-> NoStatus, isJson |-> FALSE, json |-> PyOther,
      text |-> <<>>]}
    \cup {[raised |-> FALSE, status |-> s, isJson |-> FALSE, json |-> PyOther,
           text |-> TextOf(n)] : s \in Statuses, n \in RawLens}
    \cup {[raised |-> FALSE, status |-> s, isJson |-> TRUE, json |-> v,
           text |-> <<>>] :
             s \in Statuses, v \in MessageDicts \cup {[PyOther EXCEPT !.text = TextOf(n)] : n \in RawLens}}

\* callback_view_message, lines 94-117, as a function of the callback data and
\* of what the transport does: the text it shows (edit_message_text), the
\* (email, mid) pairs it called fetch_mailcx for, and the text before line 115.
callback_view_message(tok, resp) ==
    LET parts == SplitToken(tok)
    IN  IF Len(parts) # 2
        THEN [shown |-> InvalidData, queried |-> <<>>, formatted |-> <<>>]
        ELSE LET text == Render(fetch_mailcx(resp))
             IN  [shown |-> Truncate(text), queried |-> <<parts>>, formatted |-> text]

\* string.ascii_lowercase and string.digits.
Lowercase == {"a", "b", "c", "d", "e", "f", "g", "h", "i", "j", "k", "l", "m",
              "n", "o", "p", "q", "r", "s", "t", "u", "v", "w", "x", "y", "z"}
Digits == {"0", "1", "2", "3", "4", "5", "6", "7", "8", "9"}
USERNAME_MIN == 6
USERNAME_MAX == 7
\* make_random_username, lines 51-53: what the random choices are made from.
UsernameLengths == {USERNAME_MIN, USERNAME_MAX}
Alphabet == Lowercase \cup Digits

\* Mutant of line 54: range(length).
RestLenWhole(length) == length

\* make_random_username, line 54: range(length - 1).
RestLen(length) == length - 1

\* make_random_username, lines 50-55; pick[i] is the i-th random.choice(alphabet).
make_random_username(length, first, pick) ==
    <<first>> \o [i \in 1..RestLen(length) |-> pick[i]]

\* The choices that are tried: any two characters of the alphabet in turn.
RestSample == {"a", "z", "0", "9"}
Picks ==
    {[i \in 1..USERNAME_MAX |-> IF i % 2 = 1 THEN c1 ELSE c2] :
        c1 \in Alphabet, c2 \in RestSample}

\* One handler runs from a state in which poll_inboxes sleeps after a pass over
\* one Subscription, with any of its messages delivered.
Quiescent == event.kind = "sleep"

HandlerInit ==
    \E name \in Usernames, s \in SUBSET MsgIds :
        /\ registry = << <<1, 1>> >>
        /\ email = <<Address(name)>>
        /\ seen = <<s>>
        /\ pc = "sleep"
        /\ snapshot = <<>>
        /\ idx = 0
        /\ messages = <<>>
        /\ event = Event("sleep", NoDict, NoId)
        /\ current = [u \in Subscribers |-> IF u = 1 THEN 1 ELSE NoDict]
        /\ putAddr = [u \in Subscribers |-> IF u = 1 THEN Address(name) ELSE NoEmail]
        /\ okCount = <<[m \in MsgIds |-> IF m \in s THEN 1 ELSE 0]>>
        /\ lateNotify = FALSE
        /\ tickLog = <<[obj |-> 1, queries |-> 1, failure |-> "none",
                        notified |-> FALSE, grew |-> FALSE]>>
        /\ retryDue = {}
        /\ retired = {}
        /\ sendFailed = NotRecorded

\* cmd_generate with a username that make_random_username made.
GenerateRandom ==
    /\ Quiescent
    /\ \E u \in Subscribers, length \in UsernameLengths, first \in Lowercase, pick \in Picks :
          Generate(u, make_random_username(length, first, pick))

\* callback_view_message with callback data and a transport outcome out of the
\* given sets: it reads and writes nothing of the registry.
ViewOf(tokens, responses) ==
    /\ \E tok \in tokens, resp \in responses :
          LET r == callback_view_message(tok, resp)
          IN  event' = [kind |-> "view", obj |-> NoDict, mid |-> NoId, token |-> tok,
                        shown |-> r.shown, queried |-> r.queried,
                        formatted |-> r.formatted]
    /\ UNCHANGED <<progVars, current, putAddr, okCount, lateNotify, tickLog, retryDue, retired,
                   sendFailed>>

ViewMessage ==
    /\ Quiescent
    /\ Suspended
    /\ ViewOf(Tokens, ViewResponses)

\* Line 151 run twice for the same dict and id; event keeps the set as it was
\* after the first seen.add(mid).
AddTwice ==
    /\ Quiescent
    /\ \E d \in Dicts, m \in MsgIds :
          /\ seen' = [seen EXCEPT ![d] = AfterSend(AfterSend(@, m, TRUE), m, TRUE)]
          /\ event' = [kind |-> "addTwice", obj |-> d, mid |-> m,
                       once |-> AfterSend(seen[d], m, TRUE)]
    /\ UNCHANGED <<registry, email, pc, snapshot, idx, messages,
                   current, putAddr, okCount, lateNotify, tickLog, retryDue, retired,
                   sendFailed>>

HandlerNext == GenerateRandom \/ ViewMessage \/ AddTwice

HandlerSpec == HandlerInit /\ [][HandlerNext]_vars

\* The handlers next to the poll loop: callback_view_message runs whenever
\* poll_inboxes is suspended, here for the data of one "View" button and for
\* data without a separator, with a transport that raises.
PassTokens == {MakeToken(Address(OneUsername), IdText(2)), <<"a">>}
PassResponses == {r \in Responses : r.raised}
ViewDuringPass ==
    /\ Suspended
    /\ ViewOf(PassTokens, PassResponses)

\* Each subscriber draws one username, the two subscribers different ones.
UsernameOf(u) == IF u = 1 THEN OneUsername ELSE CHOOSE n \in Usernames : n # OneUsername

FrameNext ==
    \/ \E u \in Subscribers : Generate(u, UsernameOf(u))
    \/ Tick
    \/ NextSub
    \/ \E resp \in Responses : FetchReturn(resp)
    \/ ProcessMsg
    \/ \E ok \in BOOLEAN : NotifyReturn(ok)
    \/ ViewDuringPass

FrameSpec == Init /\ [][FrameNext]_vars

\* ------------------------------------------------------------- properties
Entries(sq) == {sq[i] : i \in DOMAIN sq}
DistinctKeys(sq) == \A i, j \in DOMAIN sq : sq[i][1] = sq[j][1] => i = j

\* C1: once send_message has returned for message id m of a Subscription, m
\* is in that Subscription's seen set, it was sent successfully exactly once,
\* and send_message is never called for m and that Subscription again,
\* whatever the provider returns later.
C1_DeliveredOnce ==
    /\ ~lateNotify
    /\ \A d \in Dicts, m \in MsgIds :
          /\ okCount[d][m] <= 1
          /\ (m \in seen[d] <=> okCount[d][m] = 1)
    /\ pc = "notify" => CurMsg.id \notin seen[CurObj]

\* The provider returned an id again that was delivered: it was skipped.
C1_Witness ==
    /\ event.kind = "skipMsg"
    /\ event.mid # NoId
    /\ okCount[event.obj][event.mid] = 1

\* C2: when the query of a snapshot entry raised in this pass, no send_message
\* was called for the entry in the pass, its seen set did not grow, the entry
\* was queried exactly once, and when a later pass has ended every dict that
\* is still registered and whose query had raised has been queried again.
C2_FetchErrorSkips ==
    /\ \A i \in DOMAIN tickLog :
          tickLog[i].failure = "raised" =>
              /\ ~tickLog[i].notified
              /\ ~tickLog[i].grew
              /\ tickLog[i].queries = 1
    /\ event.kind = "skipped" => pc = "next"
    /\ pc = "sleep" => retryDue = {}

\* The pass after the one in which the query raised queries the dict again.
C2_Witness == event.kind = "queryAgain" /\ pc = "fetch"

\* C3: when send_message raises for message id m, m is not added to the seen
\* set, the loop goes on with the rest of the same response, and whenever the
\* loop comes to a message whose id is not in the seen set it calls
\* send_message for it.
C3_SendFailureKeepsMessage ==
    [][ /\ (pc = "notify" /\ event'.kind = "sendFailed") =>
              /\ event'.mid \notin seen'[event'.obj]
              /\ seen' = seen
              /\ pc' = "msg"
              /\ messages' = Tail(messages)
              /\ <<snapshot', idx'>> = <<snapshot, idx>>
        /\ (/\ pc = "msg" /\ messages # <<>>
            /\ CurMsg.isObject /\ CurMsg.id \in MsgIds \ seen[CurObj]) =>
              /\ pc' = "notify"
              /\ event' = Event("notify", CurObj, CurMsg.id)
      ]_vars

\* send_message raised with messages of the response still to come.
C3_Witness ==
    /\ event.kind = "sendFailed"
    /\ pc = "msg"
    /\ messages # <<>>
    /\ event.mid \notin seen[event.obj]

\* C4: the registry holds at most one dict per subscriber, the one of the
\* subscriber's last cmd_generate, created with an empty seen set; a snapshot
\* holds exactly these dicts, each with the address of that last cmd_generate.
C4_LatestPutOnly ==
    /\ DistinctKeys(registry)
    /\ Entries(registry) = {<<u, current[u]>> : u \in {v \in Subscribers : current[v] # NoDict}}
    /\ \A i \in DOMAIN registry : email[registry[i][2]] = putAddr[registry[i][1]]
    /\ event.kind = "put" => seen[event.obj] = {}
    /\ event.kind = "snapshot" =>
          /\ DistinctKeys(snapshot)
          /\ Entries(snapshot) = Entries(registry)
          /\ \A i \in DOMAIN snapshot :
                /\ snapshot[i][2] = current[snapshot[i][1]]
                /\ email[snapshot[i][2]] = putAddr[snapshot[i][1]]

\* A snapshot taken after a subscriber's dict was replaced.
C4_Witness ==
    /\ event.kind = "snapshot"
    /\ snapshot # <<>>
    /\ Len(email) > Len(registry)

\* C5: a message without an id causes no send_message call and changes no
\* seen set, and the loop goes on with the next message of the response.
C5_NoIdSkipped ==
    [][ (pc = "msg" /\ messages # <<>> /\ CurMsg.isObject /\ CurMsg.id = NoId) =>
           /\ pc' = "msg"
           /\ messages' = Tail(messages)
           /\ <<snapshot', idx'>> = <<snapshot, idx>>
           /\ seen' = seen
           /\ okCount' = okCount
           /\ event'.kind = "skipMsg"
      ]_vars

\* A message without an id was skipped, with messages and snapshot entries
\* still to come.
C5_Witness ==
    /\ event.kind = "skipMsg"
    /\ event.mid = NoId
    /\ messages # <<>>
    /\ idx < Len(snapshot)

\* C6: a query that fails and a send_message that raises leave the loop in
\* the pass, and a pass that ends has queried every entry of its snapshot
\* once.
C6_FailuresIsolated ==
    /\ event.kind = "skipped" => pc = "next" /\ snapshot # <<>>
    /\ event.kind = "sendFailed" => pc = "msg" /\ snapshot # <<>>
    /\ pc = "sleep" => \A i \in DOMAIN tickLog : tickLog[i].queries = 1

\* A message of a later entry is being sent after the query of an earlier
\* entry of the same snapshot raised.
C6_Witness ==
    /\ pc = "notify"
    /\ idx > 1
    /\ tickLog[1].failure = "raised"

\* C7: no provider response ends the poll loop.
C7_LoopNeverDies == pc # "crashed"

\* C8: after an answer with a non-success status no send_message is called
\* for the entry in the pass and its seen set does not grow.
C8_NonSuccessIsFetchError ==
    \A i \in DOMAIN tickLog :
        tickLog[i].failure = "status" => ~tickLog[i].notified /\ ~tickLog[i].grew

\* C9: every fetch_mailcx and send_message call is made for the address of
\* the subscriber's last cmd_generate.
C9_PriorNeverPolled ==
    IsCall(event) => email[event.obj] = putAddr[CurUser]

\* C9, amended: a dict that is no longer the one of its subscriber's last
\* cmd_generate is in the snapshot of a pass only if it was replaced after
\* that snapshot was taken.
C9_PriorPolledOnlyInPass ==
    \A i \in DOMAIN snapshot :
        snapshot[i][2] = current[snapshot[i][1]] \/ snapshot[i][2] \in retired

\* A call is made for a dict that was replaced during the pass.
C9_Witness == IsCall(event) /\ event.obj \in retired

\* C10: when send_message returns for a dict that has been replaced, the loop
\* goes on and the seen set of the subscriber's new dict is unchanged.
C10_StaleDeliveryDropped ==
    [][ (pc = "notify" /\ pc' # "notify" /\ CurObj # current[CurUser]) =>
           /\ pc' = "msg"
           /\ seen'[current[CurUser]] = seen[current[CurUser]]
      ]_vars

\* A delivery for a replaced dict was recorded, and the new dict's seen set
\* does not hold the id.
C10_Witness ==
    /\ event.kind = "sent"
    /\ event.obj # current[CurUser]
    /\ event.mid \in seen[event.obj]
    /\ event.mid \notin seen[current[CurUser]]

\* C11: a cmd_generate that runs while a pass is suspended leaves the pass where
\* it is and its list as it was; the new dict is no entry of that list, every
\* fetch_mailcx and send_message call of the pass is made for an entry of the
\* list as it was taken, the next snapshot holds every registered dict, and a
\* pass that ends has queried every entry of its snapshot.
C11_PutDuringPass ==
    [][ /\ event'.kind = "put" =>
              /\ <<pc', snapshot', idx', messages'>> = <<pc, snapshot, idx, messages>>
              /\ event'.obj \notin SnapObjs'
              /\ event'.obj \in RegObjs(registry')
        /\ IsCall(event') =>
              /\ snapshot' = snapshot
              /\ event'.obj \in SnapObjs
        /\ event'.kind = "snapshot" => SnapObjs' = RegObjs(registry)
        /\ event'.kind = "sleep" => \A i \in DOMAIN tickLog : tickLog[i].queries = 1
      ]_vars

\* cmd_generate ran while the pass was suspended in a call, and the new dict
\* is registered but is no entry of the pass's list.
C11_Witness ==
    /\ event.kind = "put"
    /\ pc \in {"fetch", "notify"}
    /\ snapshot # <<>>
    /\ event.obj \in RegObjs(registry) \ SnapObjs

\* C12: callback data without a separator gets the invalid-data text, no
\* fetch_mailcx call is made, and the registry and the seen sets stay as they
\* were.
C12_NoSeparatorIsInvalid ==
    [][ (event'.kind = "view" /\ ~HasSep(event'.token)) =>
           /\ event'.shown = InvalidData
           /\ event'.queried = <<>>
           /\ <<registry', email', seen'>> = <<registry, email, seen>>
      ]_vars

\* Callback data of several characters and no separator was handled while the
\* registry held a Subscription with delivered ids.
C12_Witness ==
    /\ event.kind = "view"
    /\ Len(event.token) > 1
    /\ ~HasSep(event.token)
    /\ event.shown = InvalidData
    /\ \E d \in Dicts : seen[d] # {}

\* C13: seen.add(mid) run twice for a dict leaves the seen set that one run
\* leaves: it holds mid, and line 138 skips a message with that id.
C13_AddTwiceIsOnce ==
    event.kind = "addTwice" =>
        /\ seen[event.obj] = event.once
        /\ event.mid \in seen[event.obj]
        /\ ~IsNew(event.mid, seen[event.obj])

\* The id was added twice to a seen set that held another id and not this one.
C13_Witness ==
    /\ event.kind = "addTwice"
    /\ okCount[event.obj][event.mid] = 0
    /\ Cardinality(seen[event.obj]) = 2

\* The characters of an address before its first "@".
LocalPart(a) ==
    IF \E i \in DOMAIN a : a[i] = "@"
    THEN SubSeq(a, 1, (CHOOSE i \in DOMAIN a :
                          a[i] = "@" /\ \A j \in 1..(i - 1) : a[j] # "@") - 1)
    ELSE a

\* C14: the address of every dict that cmd_generate made has a local part of 6
\* or 7 characters, the first a lowercase letter and the others lowercase
\* letters or digits, followed by "@" and the fixed domain.
C14_AddressShape ==
    \A d \in Dicts :
        email[d] # NoEmail =>
            LET a == email[d]
                n == Len(LocalPart(a))
            IN  /\ n \in {6, 7}
                /\ a[1] \in Lowercase
                /\ \A i \in 2..n : a[i] \in Lowercase \cup Digits
                /\ a = LocalPart(a) \o <<"@">> \o DEFAULT_DOMAIN

\* cmd_generate made an address whose local part has 7 characters, digits
\* among them.
C14_Witness ==
    /\ event.kind = "put"
    /\ Len(LocalPart(email[event.obj])) = 7
    /\ \E i \in 2..7 : email[event.obj][i] \in Digits

\* C15: the text callback_view_message shows for a fetched message is the
\* formatted text itself when that has at most 3800 characters, and otherwise
\* its first 3800 characters followed by the truncation marker.
C15_TruncatedAtLimit ==
    (event.kind = "view" /\ event.queried # <<>>) =>
        LET f == event.formatted
            t == event.shown
        IN  /\ Len(f) <= TEXT_LIMIT => t = f
            /\ Len(f) > TEXT_LIMIT =>
                  /\ Len(t) = TEXT_LIMIT + Len(TruncationMarker)
                  /\ \A i \in 1..TEXT_LIMIT : t[i] = f[i]
                  /\ SubSeq(t, TEXT_LIMIT + 1, Len(t)) = TruncationMarker

\* A message object whose formatted text is longer than the limit was shown.
C15_Witness ==
    /\ event.kind = "view"
    /\ event.queried # <<>>
    /\ Len(event.formatted) > TEXT_LIMIT
    /\ SubSeq(event.formatted, 1, Len(SubjectLabel)) = SubjectLabel
    /\ Len(event.shown) < Len(event.formatted)

\* C16: send_message is called for the first message of the response that the
\* loop has not passed, and the loop passes the messages of a response one by
\* one from the front, within one snapshot entry; a pass begins only when the
\* pass before it has no entry and no message left.
C16_NotifyInProviderOrder ==
    [][ /\ event'.kind = "notify" =>
              /\ messages # <<>>
              /\ messages' = messages
              /\ event'.mid = Head(messages).id
              /\ event'.obj = snapshot[idx][2]
        /\ (pc \in {"msg", "notify"} /\ pc' \in {"msg", "notify"}) =>
              /\ messages' \in {messages, Tail(messages)}
              /\ <<snapshot', idx'>> = <<snapshot, idx>>
        /\ event'.kind = "snapshot" =>
              /\ pc \in {"start", "sleep"}
              /\ messages = <<>>
              /\ snapshot = <<>>
      ]_vars

\* send_message is called for the first of two messages with different ids.
C16_Witness ==
    /\ event.kind = "notify"
    /\ Len(messages) > 1
    /\ messages[2].isObject
    /\ messages[2].id \notin {NoId, event.mid}

\* C17: with a provider that lists id 1 before id 2 in every response, id 2 is
\* in a seen set only when id 1 is.
C17_RecordedInProviderOrder ==
    \A d \in Dicts : 2 \in seen[d] => 1 \in seen[d]

\* C17, amended: with such a provider, id 2 is in a seen set only when id 1
\* is, unless a send_message for id 1 and that dict raised.
C17_RecordedInOrderUnlessFailed ==
    \A d \in Dicts : (2 \in seen[d] /\ 1 \notin sendFailed.ids[d]) => 1 \in seen[d]

\* Both ids were recorded for a dict, the second one last, and no
\* send_message for the first one had raised.
C17_Witness ==
    /\ event.kind = "sent"
    /\ event.mid = 2
    /\ seen[event.obj] = {1, 2}
    /\ 1 \notin sendFailed.ids[event.obj]

\* C18: with a provider that keeps listing id 1, a send_message that does not
\* raise forever and a fair event loop, id 1 is eventually in the seen set of
\* every Subscription, which stays registered.
C18_EventuallyDelivered ==
    \A d \in 1..MaxSubscriptions :
        (Len(email) >= d) ~> (Len(email) >= d /\ 1 \in seen[d])

\* C19: the seen set of a dict that something still refers to only grows, and
\* it grows only when send_message returns for that dict; the address of such
\* a dict never changes; only cmd_generate changes the registry, and no step
\* of poll_inboxes and no callback_view_message does.
C19_SeenOnlyGrows ==
    [][ /\ \A d \in Dicts \cap (RegObjs(registry') \cup SnapObjs') :
              /\ seen[d] \subseteq seen'[d]
              /\ email'[d] = email[d]
              /\ seen'[d] # seen[d] =>
                    /\ pc = "notify"
                    /\ event' = Event("sent", d, Head(messages).id)
                    /\ seen'[d] = seen[d] \cup {Head(messages).id}
        /\ registry' # registry => event'.kind = "put"
        /\ (pc' # pc \/ event'.kind = "view") => registry' = registry
        /\ event'.kind = "view" => <<email', seen'>> = <<email, seen>>
      ]_vars

\* A second id was recorded for a dict and the first one is still there.
C19_Witness ==
    /\ event.kind = "sent"
    /\ Cardinality(seen[event.obj]) = 2

\* C20: send_message is called only for an entry of the pass's snapshot that
\* was queried in this pass, and for a message with an id out of the response
\* to that query; the callback data made for it splits back into that dict's
\* address and that id, also for an id that holds a separator, and these are
\* what callback_view_message queries; every id in a seen set is one for which
\* a send_message for that dict returned.
C20_NotifyMatchesSnapshot ==
    /\ pc = "notify" =>
          /\ idx \in DOMAIN snapshot
          /\ tickLog[idx].obj = snapshot[idx][2]
          /\ tickLog[idx].queries = 1
          /\ messages # <<>>
          /\ Head(messages).isObject
          /\ Head(messages).id \in MsgIds
          /\ LET addr == email[snapshot[idx][2]]
                 mid == IdText(Head(messages).id)
             IN  /\ addr # NoEmail
                 /\ SplitToken(MakeToken(addr, mid)) = <<addr, mid>>
    /\ event.kind = "notify" =>
          /\ pc = "notify"
          /\ event.obj = snapshot[idx][2]
          /\ event.mid = Head(messages).id
    /\ event.kind = "view" =>
          \A n \in Usernames, m \in MsgIds :
              event.token = MakeToken(Address(n), IdText(m)) =>
                  event.queried = << <<Address(n), IdText(m)>> >>
    /\ \A d \in Dicts, m \in MsgIds : m \in seen[d] => okCount[d][m] >= 1

\* send_message is called for a message whose id holds a separator, for an
\* entry after the first of the snapshot.
C20_Witness ==
    /\ event.kind = "notify"
    /\ HasSep(IdText(event.mid))
    /\ idx > 1

====
